---- MODULE Spec2Model ----
(***************************************************************************)
(* A model of package tagops: the struct-to-map converter (Mapper.ToMap),  *)
(* its tag resolver (tagName), the emptiness classifier (isEmpty) and the  *)
(* key/value projection (Keys, MapValues, Tags, Values).                   *)
(*                                                                         *)
(* Go strings are sequences of one-character strings; a Go map is a        *)
(* function whose DOMAIN is its key set; a struct value is the sequence of *)
(* its fields in declaration order, each with its reflect.StructField data *)
(* (name, anonymous, tag) and its value.  A panic is an outcome of its     *)
(* own: operations that can panic return a record with a panicked flag.    *)
(* The struct is handed over by value; a pointer to it is dereferenced     *)
(* first (mapper.go:66-68) and walked the same way.                        *)
(***************************************************************************)
EXTENDS Integers, Sequences, FiniteSets, TLC

VARIABLES
    family,  \* the kind of input: "field", "struct", "collide", "proj", "keys"
    op,      \* the call made: "none" before it, else the function's name
    a,       \* the struct passed to ToMap / Tags / Values
    m,       \* the Mapper (receiver, or the tag of a free function)
    mp,      \* the map passed to Keys / MapValues
    order,   \* the key order passed to MapValues
    out,     \* the caller's slice, handed to MapValues by pointer
    ret      \* what the call returned (or that it panicked)

vars == <<family, op, a, m, mp, order, out, ret>>

-----------------------------------------------------------------------------
(* Bounds of the model.                                                    *)

\* most fields, counted over all nesting levels, of a struct with nested structs
MaxNodes == 3
\* longest key order handed to MapValues
MaxOrder == 3
\* longest initial output slice handed to MapValues
MaxLen == 4
\* most top-level fields of a struct whose fields share keys
MaxCollide == 2

-----------------------------------------------------------------------------
(* Strings.                                                                *)

\* Unicode code points of the characters the model uses.
CodePoint(c) ==
    CASE c = "," -> 44 [] c = "-" -> 45
      [] c = "A" -> 65 [] c = "B" -> 66 [] c = "C" -> 67 [] c = "D" -> 68
      [] c = "E" -> 69 [] c = "F" -> 70
      [] c = "a" -> 97 [] c = "b" -> 98 [] c = "c" -> 99 [] c = "d" -> 100
      [] c = "e" -> 101 [] c = "f" -> 102 [] c = "g" -> 103 [] c = "i" -> 105
      [] c = "m" -> 109 [] c = "n" -> 110 [] c = "o" -> 111 [] c = "p" -> 112
      [] c = "q" -> 113 [] c = "r" -> 114 [] c = "s" -> 115 [] c = "t" -> 116
      [] c = "y" -> 121 [] c = "z" -> 122

\* unicode.Lu restricted to the characters of the model
Lu == {"A", "B", "C", "D", "E", "F"}

\* simple case folding of one character (strings.EqualFold compares folded runes)
Fold(c) ==
    CASE c = "A" -> "a" [] c = "B" -> "b" [] c = "C" -> "c" [] c = "D" -> "d"
      [] c = "E" -> "e" [] c = "F" -> "f" [] OTHER -> c

\* strings.EqualFold(s, t)
EqualFold(s, t) ==
    /\ Len(s) = Len(t)
    /\ \A i \in 1..Len(s) : Fold(s[i]) = Fold(t[i])

\* s < t in Go: byte-wise lexicographic order
RECURSIVE StrLess(_, _)
StrLess(s, t) ==
    IF t = <<>> THEN FALSE
    ELSE IF s = <<>> THEN TRUE
    ELSE IF CodePoint(Head(s)) # CodePoint(Head(t))
         THEN CodePoint(Head(s)) < CodePoint(Head(t))
    ELSE StrLess(Tail(s), Tail(t))

\* tagsep, fOmitEmpty: the package constants
tagsep == ","
fOmitEmpty == <<"o", "m", "i", "t", "e", "m", "p", "t", "y">>

\* strings.SplitN(s, sep, 2) for a one-character sep: at most two pieces, cut
\* at the first sep; never an empty list.
SplitN2(s, sep) ==
    IF \E i \in 1..Len(s) : s[i] = sep
    THEN LET i == CHOOSE i \in 1..Len(s) :
                      s[i] = sep /\ \A j \in 1..(i - 1) : s[j] # sep
         IN  <<SubSeq(s, 1, i - 1), SubSeq(s, i + 1, Len(s))>>
    ELSE <<s>>

-----------------------------------------------------------------------------
(* Values: what reflect sees of a value.  kind is reflect.Kind, type the   *)
(* static type where the code looks at it, n the numeric content (the      *)
(* number, the length, 1 for true / non-nil / a non-zero instant), fields  *)
(* the fields of a struct, entries the entries of a map[string]any.        *)

Val(k, t, n) == [kind |-> k, type |-> t, n |-> n, fields |-> <<>>, entries |-> <<>>]

\* the nil interface value: the zero value of `any`
Nil == Val("nil", "nil", 0)

StructVal(flds) ==
    [kind |-> "struct", type |-> "record", n |-> 0, fields |-> flds, entries |-> <<>>]

MapVal(mm) ==
    [kind |-> "map", type |-> "map[string]any", n |-> Cardinality(DOMAIN mm),
     fields |-> <<>>, entries |-> mm]

TimeType == "time.Time"

\* isEmpty knows about some empty values.
isEmpty(v) ==
    CASE v.kind \in {"int", "int8", "int16", "int32", "int64"} -> v.n = 0
      [] v.kind \in {"uint", "uint8", "uint16", "uint32", "uint64", "uintptr"} -> v.n = 0
      [] v.kind \in {"float32", "float64"} -> v.n = 0
      [] v.kind \in {"array", "map", "slice", "string"} -> v.n = 0
      [] v.kind = "bool" -> v.n = 0
      [] v.kind \in {"complex64", "complex128"} -> v.n = 0
      [] v.kind = "struct" ->
            \* a struct other than time.Time leaves the switch: no fallthrough
            IF v.type = TimeType THEN v.n = 0 ELSE FALSE
      [] v.kind \in {"interface", "ptr"} -> v.n = 0
      [] OTHER -> FALSE

\* isExported panics on a name whose first rune cannot be decoded
isExportedPanics(fieldName) == Len(fieldName) = 0

\* isExported returns true if the field is exported.
isExported(fieldName) == fieldName[1] \in Lu

\* fld.Tag.Get(tag): the annotation under the key tag, "" when there is none
TagGet(fld, tag) ==
    IF fld.tag.has /\ fld.tag.key = tag THEN fld.tag.s ELSE <<>>

\* tagName that omits an empty field whatever the Mapper's Omitempty is
tagName_AlwaysOmit(fld, val, tag, omitempty) ==
    IF ~isExported(fld.name)
    THEN [key |-> <<>>, err |-> "errSkip"]
    ELSE LET tagValue == SplitN2(TagGet(fld, tag), tagsep)
             name == IF tagValue[1] = <<>> THEN fld.name ELSE tagValue[1]
         IN  IF EqualFold(tagValue[1], <<"-">>)
             THEN [key |-> <<>>, err |-> "errSkip"]
             ELSE IF Len(tagValue) > 1 /\ tagValue[2] = fOmitEmpty /\ isEmpty(val)
             THEN [key |-> <<>>, err |-> "errSkip"]
             ELSE [key |-> name, err |-> "nil"]

\* tagName returns a tag name for the field, or errSkip if the field should
\* be skipped.
tagName(fld, val, tag, omitempty) ==
    IF isExportedPanics(fld.name)
    THEN [key |-> <<>>, err |-> "panic"]
    ELSE IF ~isExported(fld.name)
    THEN [key |-> <<>>, err |-> "errSkip"]
    ELSE LET tagValue == SplitN2(TagGet(fld, tag), tagsep)
             name == IF tagValue[1] = <<>> THEN fld.name ELSE tagValue[1]
         IN  IF Len(tagValue) = 0
             THEN [key |-> fld.name, err |-> "nil"]
             ELSE IF EqualFold(tagValue[1], <<"-">>)
             THEN [key |-> <<>>, err |-> "errSkip"]
             ELSE IF omitempty /\ Len(tagValue) > 1
                     /\ tagValue[2] = fOmitEmpty /\ isEmpty(val)
             THEN [key |-> <<>>, err |-> "errSkip"]
             ELSE [key |-> name, err |-> "nil"]


-----------------------------------------------------------------------------
(* Maps.                                                                   *)

\* make(map[string]any)
EmptyMap == [k \in {} |-> Nil]

\* out[key] = val
Put(f, key, val) == [k \in DOMAIN f \cup {key} |-> IF k = key THEN val ELSE f[k]]

\* a merge that keeps the value a key already has in out
Merge_KeepFirst(f, nested) ==
    [k \in DOMAIN f \cup DOMAIN nested |-> IF k \in DOMAIN f THEN f[k] ELSE nested[k]]

\* for key, val := range nested { out[key] = val }
Merge(f, nested) ==
    [k \in DOMAIN f \cup DOMAIN nested |-> IF k \in DOMAIN nested THEN nested[k] ELSE f[k]]

\* m[col]: the zero value (nil) for a key the map does not hold
MapGet(f, col) == IF col \in DOMAIN f THEN f[col] ELSE Nil

-----------------------------------------------------------------------------
(* The record walker.                                                      *)

Panicked == [panicked |-> TRUE, m |-> EmptyMap]
Returned(f) == [panicked |-> FALSE, m |-> f]

\* v.Field(i).Interface(): reflect panics on a value obtained from an
\* unexported field (embedded or not); Go's exported names start with an
\* upper-case letter.
InterfacePanics(fld) == ~(fld.name[1] \in Lu)

\* field.Type.Kind() == reflect.Struct && v.Field(i).Type() != reflect.TypeOf(time.Time{})
IsNestedStruct(fld) == fld.val.kind = "struct" /\ fld.val.type # TimeType

RECURSIVE MapperToMap(_, _)
RECURSIVE ToMap(_, _, _, _)
RECURSIVE ToMapLoop(_, _, _)

\* the loop body that flattens on the Flatten option alone, embedded or not
ToMapField_FlattenOnly(mm, f, fld) ==
    IF IsNestedStruct(fld)
    THEN IF InterfacePanics(fld) THEN Panicked
         ELSE LET nested == ToMap(fld.val.fields, mm.Tag, mm.Omitempty, mm.Flatten)
              IN  IF nested.panicked THEN Panicked
                  ELSE IF mm.Flatten
                  THEN Returned(Merge(f, nested.m))
                  ELSE LET tn == tagName(fld, fld.val, mm.Tag, mm.Omitempty)
                       IN  IF tn.err = "errSkip" THEN Returned(f)
                           ELSE Returned(Put(f, tn.key, MapVal(nested.m)))
    ELSE LET tn == tagName(fld, fld.val, mm.Tag, mm.Omitempty)
         IN  IF tn.err = "errSkip" THEN Returned(f)
             ELSE Returned(Put(f, tn.key, fld.val))

\* the loop body that flattens embedded structs alone, whatever Flatten is
ToMapField_EmbeddedOnly(mm, f, fld) ==
    IF IsNestedStruct(fld)
    THEN IF InterfacePanics(fld) THEN Panicked
         ELSE LET nested == ToMap(fld.val.fields, mm.Tag, mm.Omitempty, mm.Flatten)
              IN  IF nested.panicked THEN Panicked
                  ELSE IF fld.anonymous
                  THEN Returned(Merge(f, nested.m))
                  ELSE LET tn == tagName(fld, fld.val, mm.Tag, mm.Omitempty)
                       IN  IF tn.err = "errSkip" THEN Returned(f)
                           ELSE Returned(Put(f, tn.key, MapVal(nested.m)))
    ELSE LET tn == tagName(fld, fld.val, mm.Tag, mm.Omitempty)
         IN  IF tn.err = "errSkip" THEN Returned(f)
             ELSE Returned(Put(f, tn.key, fld.val))

\* one iteration of the loop of Mapper.ToMap, on field fld, with out = f
ToMapField(mm, f, fld) ==
    IF IsNestedStruct(fld)
    THEN IF InterfacePanics(fld) THEN Panicked
         ELSE LET nested == ToMap(fld.val.fields, mm.Tag, mm.Omitempty, mm.Flatten)
              IN  IF nested.panicked THEN Panicked
                  ELSE IF fld.anonymous \/ mm.Flatten
                  THEN Returned(Merge(f, nested.m))
                  ELSE LET tn == tagName(fld, fld.val, mm.Tag, mm.Omitempty)
                       IN  CASE tn.err = "panic" -> Panicked
                             [] tn.err = "errSkip" -> Returned(f)
                             [] OTHER -> Returned(Put(f, tn.key, MapVal(nested.m)))
    ELSE LET tn == tagName(fld, fld.val, mm.Tag, mm.Omitempty)
         IN  CASE tn.err = "panic" -> Panicked
               [] tn.err = "errSkip" -> Returned(f)
               [] OTHER -> Returned(Put(f, tn.key, fld.val))

\* the state of Mapper.ToMap after the first n iterations of its loop
ToMapLoop(mm, flds, n) ==
    IF n = 0 THEN Returned(EmptyMap)
    ELSE LET prev == ToMapLoop(mm, flds, n - 1)
         IN  IF prev.panicked THEN Panicked
             ELSE ToMapField(mm, prev.m, flds[n])

\* func (m Mapper) ToMap(a any) map[string]any
MapperToMap(mm, flds) == ToMapLoop(mm, flds, Len(flds))

\* func ToMap(a any, tag string, omitempty bool, flatten bool) map[string]any
ToMap(flds, tag, omitempty, flatten) ==
    MapperToMap([Tag |-> tag, Omitempty |-> omitempty, Flatten |-> flatten], flds)

-----------------------------------------------------------------------------
(* Keys and projection.                                                    *)

\* slices.Collect(maps.Keys(m)): the keys in the order the map yields them
\* (any order); nil when the map has no key
RECURSIVE Collect(_)
Collect(S) ==
    IF S = {} THEN <<>>
    ELSE LET k == CHOOSE k \in S : TRUE IN <<k>> \o Collect(S \ {k})

\* insertion of k into a sorted sequence
RECURSIVE Insert(_, _)
Insert(k, s) ==
    IF s = <<>> THEN <<k>>
    ELSE IF StrLess(Head(s), k) THEN <<Head(s)>> \o Insert(k, Tail(s))
    ELSE <<k>> \o s

\* a sort that leaves the keys in the order the map yielded them
SortStrings_None(kk) == kk

\* sort.Strings(kk)
RECURSIVE SortStrings(_)
SortStrings(kk) ==
    IF kk = <<>> THEN <<>> ELSE Insert(Head(kk), SortStrings(Tail(kk)))

\* a []string: nil or not, and its elements
StringSlice(isNil, elems) == [isNil |-> isNil, elems |-> elems]

\* Keys returns a sorted list of keys for the map m.
Keys(f) ==
    LET kk == Collect(DOMAIN f)
    IN  StringSlice(kk = <<>>, SortStrings(kk))

\* a *[]any: a nil pointer, or a pointer to a slice with these elements
SlicePtr(nilptr, elems) == [nilptr |-> nilptr, elems |-> elems]

\* resize that grows a short slice and leaves a long one as it is
resize_GrowOnly(s, sz) ==
    IF s.nilptr THEN [s |-> s, panic |-> "resize: nil slice"]
    ELSE IF Len(s.elems) >= sz
    THEN [s |-> s, panic |-> "none"]
    ELSE [s |-> SlicePtr(FALSE, s.elems \o [i \in 1..(sz - Len(s.elems)) |-> Nil]),
          panic |-> "none"]

\* resize resizes the slice to a requested size.
resize(s, sz) ==
    IF s.nilptr THEN [s |-> s, panic |-> "resize: nil slice"]
    ELSE IF Len(s.elems) >= sz
    THEN [s |-> SlicePtr(FALSE, SubSeq(s.elems, 1, sz)), panic |-> "none"]
    ELSE [s |-> SlicePtr(FALSE, s.elems \o [i \in 1..(sz - Len(s.elems)) |-> Nil]),
          panic |-> "none"]

\* for i, col := range order { (*out)[i] = m[col] }, from index i on
RECURSIVE WriteLoop(_, _, _, _)
WriteLoop(s, f, ord, i) ==
    IF i > Len(ord) THEN [s |-> s, panic |-> "none"]
    ELSE IF i > Len(s.elems) THEN [s |-> s, panic |-> "runtime error: index out of range"]
    ELSE WriteLoop(SlicePtr(FALSE, [s.elems EXCEPT ![i] = MapGet(f, ord[i])]), f, ord, i + 1)

\* the body of MapValues, up to its return or its panic
MapValuesBody(outp, f, ord) ==
    IF outp.nilptr
    THEN [s |-> outp, panic |-> "runtime error: nil pointer dereference"]
    ELSE LET r == IF Len(outp.elems) # Len(ord.elems)
                  THEN resize(outp, Len(ord.elems))
                  ELSE [s |-> outp, panic |-> "none"]
         IN  IF r.panic # "none" THEN r ELSE WriteLoop(r.s, f, ord.elems, 1)

\* MapValues without the deferred recover: a panic of the body escapes
MapValues_NoRecover(outp, f, ord) ==
    LET b == MapValuesBody(outp, f, ord)
    IN  [out |-> b.s, panicked |-> b.panic # "none", err |-> "nil"]

\* MapValues populates slice out with values from map m in the key order
\* specified by order; the deferred function turns a panic into the error.
MapValues(outp, f, ord) ==
    LET b == MapValuesBody(outp, f, ord)
    IN  [out |-> b.s, panicked |-> FALSE,
         err |-> IF b.panic = "none" THEN "nil" ELSE b.panic]

\* func (m Mapper) Tags(a any) []string
MapperTags(mm, flds) ==
    LET r == ToMap(flds, mm.Tag, mm.Omitempty, mm.Flatten)
    IN  IF r.panicked THEN [panicked |-> TRUE, tags |-> StringSlice(TRUE, <<>>)]
        ELSE [panicked |-> FALSE, tags |-> Keys(r.m)]

\* func Tags(a any, tag string) []string
Tags(flds, tag) == MapperTags([Tag |-> tag, Omitempty |-> FALSE, Flatten |-> TRUE], flds)

NoValues == [panicked |-> TRUE, isNil |-> TRUE, vals |-> <<>>, err |-> "nil"]

\* func (m Mapper) Values(a any) ([]any, error)
MapperValues(mm, flds) ==
    LET r == ToMap(flds, mm.Tag, FALSE, TRUE)
    IN  IF r.panicked THEN NoValues
        ELSE LET t == MapperTags(mm, flds)
             IN  IF t.panicked THEN NoValues
                 ELSE LET mv == MapValues(SlicePtr(FALSE, <<>>), r.m, t.tags)
                      IN  IF mv.panicked THEN NoValues
                          ELSE IF mv.err # "nil"
                          THEN [panicked |-> FALSE, isNil |-> TRUE, vals |-> <<>>,
                                err |-> mv.err]
                          ELSE [panicked |-> FALSE, isNil |-> FALSE,
                                vals |-> mv.out.elems, err |-> "nil"]

\* func Values(a any, tag string) ([]any, error)
Values(flds, tag) == MapperValues([Tag |-> tag, Omitempty |-> FALSE, Flatten |-> TRUE], flds)

-----------------------------------------------------------------------------
(* The inputs the calls are made with.                                     *)

\* reflect.StructField data of a field and the field's value
Field(name, anonymous, tag, val) ==
    [name |-> name, anonymous |-> anonymous, tag |-> tag, val |-> val]

\* no annotation, and an annotation under the key "json"
NoTag == [has |-> FALSE, key |-> "", s |-> <<>>]
Json(s) == [has |-> TRUE, key |-> "json", s |-> s]

TagA == <<"a">>
TagAOmit == <<"a", ",">> \o fOmitEmpty
TagOmit == <<",">> \o fOmitEmpty
TagDash == <<"-">>
TagDashComma == <<"-", ",">>
TagAOmitString == TagAOmit \o <<",", "s", "t", "r", "i", "n", "g">>

\* the name of the field declared at position i: exported or not
UpperNames == <<"A", "B", "C", "D", "E", "F">>
LowerNames == <<"a", "b", "c", "d", "e", "f">>
FieldName(i, exported) == IF exported THEN <<UpperNames[i]>> ELSE <<LowerNames[i]>>

\* annotations of a field, and values of every kind isEmpty tells apart:
\* an empty and a non-empty one of each
FieldTags ==
    {NoTag, Json(TagA), Json(TagAOmit), Json(TagOmit), Json(TagDash),
     Json(TagDashComma), Json(TagAOmitString)}
FieldValues ==
    {Val(k, k, n) :
        k \in {"int", "uint8", "float64", "string", "slice", "bool", "complex128",
               "ptr", "interface", "chan"},
        n \in {0, 1}}
    \cup {Val("struct", TimeType, n) : n \in {0, 1}}

\* structs of one field that is no nested struct
FieldRecords ==
    {<<Field(FieldName(1, TRUE), FALSE, t, v)>> : t \in FieldTags, v \in FieldValues}
    \cup {<<Field(FieldName(1, FALSE), FALSE, t, v)>> :
            t \in {NoTag, Json(TagA)}, v \in {Val("int", "int", 0), Val("int", "int", 1)}}

\* leaf fields of the structs that nest, at position i; top: of the struct
\* handed to the call, else of a struct nested in it
TreeLeaves(i, top) ==
    {Field(FieldName(i, TRUE), FALSE, NoTag, Val("int", "int", 1)),
     Field(FieldName(i, TRUE), FALSE, Json(TagAOmit), Val("int", "int", 0))}
    \cup IF top
         THEN {Field(FieldName(i, TRUE), FALSE, Json(TagDash), Val("int", "int", 1)),
               Field(FieldName(i, FALSE), FALSE, NoTag, Val("int", "int", 1))}
         ELSE {}

\* a struct-typed field at position i holding the struct inner: named or
\* embedded, exported or not, annotated or not
TreeStructs(i, inner, top) ==
    {Field(FieldName(i, TRUE), an, NoTag, StructVal(inner)) : an \in BOOLEAN}
    \cup IF top
         THEN {Field(FieldName(i, TRUE), FALSE, Json(TagAOmit), StructVal(inner)),
               Field(FieldName(i, TRUE), FALSE, Json(TagDash), StructVal(inner)),
               Field(FieldName(i, TRUE), TRUE, Json(TagDash), StructVal(inner))}
              \cup {Field(FieldName(i, FALSE), an, NoTag, StructVal(inner)) : an \in BOOLEAN}
         ELSE {}

\* the struct-typed fields at position i that hold one of the structs inners
TreeNested(i, inners, top) == UNION {TreeStructs(i, inner, top) : inner \in inners}

\* the fields that may come last, at position i, in a struct, when the last
\* field accounts for s fields counted over all nesting levels
RECURSIVE TreeExact(_, _)
TreeLast(i, s, top) ==
    IF s = 1
    THEN TreeLeaves(i, top) \cup TreeNested(i, {<<>>}, top)
    ELSE TreeNested(i, TreeExact(s - 1, FALSE), top)

\* structs with exactly n fields counted over all nesting levels
TreeExact(n, top) ==
    IF n = 0 THEN {<<>>}
    ELSE UNION {
           LET prefixes == TreeExact(n - s, top)
           IN  UNION {
                 {Append(r, f) : r \in {p \in prefixes : Len(p) = k},
                                 f \in TreeLast(k + 1, s, top)}
                 : k \in 0..(n - s)}
           : s \in 1..n}

\* a is a struct with at most MaxNodes fields counted over all nesting levels
IsTreeRecord(x) ==
    \/ x = <<>>
    \/ \E n \in 1..MaxNodes : \E s \in 1..n : \E r \in TreeExact(n - s, TRUE) :
         \E f \in TreeLast(Len(r) + 1, s, TRUE) : x = Append(r, f)

\* structs whose fields share keys: a leaf at position i holds the number n,
\* under its own name or under the key "a"
CollideLeaves(i, n) ==
    {Field(FieldName(i, TRUE), FALSE, t, Val("int", "int", n)) : t \in {NoTag, Json(TagA)}}

\* the structs nested in the field at position i: one leaf, or two of which
\* the second is under the key "a"
CollideInner(i) ==
    {<<f>> : f \in CollideLeaves(1, 10 * i + 1)}
    \cup {<<f, Field(FieldName(2, TRUE), FALSE, Json(TagA), Val("int", "int", 10 * i + 2))>> :
            f \in CollideLeaves(1, 10 * i + 1)}

\* the fields at position i: a leaf, an embedded struct, a named struct
CollideFields(i) ==
    CollideLeaves(i, i)
    \cup {Field(FieldName(i, TRUE), TRUE, NoTag, StructVal(s)) : s \in CollideInner(i)}
    \cup {Field(FieldName(i, TRUE), FALSE, t, StructVal(s)) :
            t \in {NoTag, Json(TagA)}, s \in CollideInner(i)}

\* the structs of exactly n such fields
RECURSIVE CollideExact(_)
CollideExact(n) ==
    IF n = 0 THEN {<<>>}
    ELSE {Append(r, f) : r \in CollideExact(n - 1), f \in CollideFields(n)}

\* x is a struct of one to MaxCollide such fields
IsCollideRecord(x) ==
    \E n \in 1..MaxCollide : \E r \in CollideExact(n - 1) :
        \E f \in CollideFields(n) : x = Append(r, f)

Mappers == [Tag : {"json", "db"}, Omitempty : BOOLEAN, Flatten : BOOLEAN]
JsonMappers == {mm \in Mappers : mm.Tag = "json"}

\* maps, key orders and output slices handed to Keys and MapValues
ProjKeys == {<<"a">>, <<"z">>}
ProjValues == {Val("int", "int", 1), Val("int", "int", 2)}
ProjMaps == UNION {[D -> ProjValues] : D \in SUBSET ProjKeys}
OrderKeys == ProjKeys \cup {<<"q">>}
Orders == UNION {[1..n -> OrderKeys] : n \in 0..MaxOrder}
Stale == Val("int", "int", 9)
OutSlices ==
    {SlicePtr(TRUE, <<>>)} \cup {SlicePtr(FALSE, [i \in 1..n |-> Stale]) : n \in 0..MaxLen}
KeysKeys == {<<"a">>, <<"a", "b">>, <<"b">>, <<"B">>, <<"z">>, <<>>}
KeysMaps == {[k \in D |-> Stale] : D \in SUBSET KeysKeys}

NoMapper == [Tag |-> "", Omitempty |-> FALSE, Flatten |-> FALSE]
NoRet == [kind |-> "none"]

-----------------------------------------------------------------------------
(* The state machine: one call of the package's API on the chosen input.   *)

Init ==
    /\ op = "none"
    /\ ret = NoRet
    /\ m = NoMapper
    /\ \/ /\ family = "field"
          /\ a \in FieldRecords
          /\ mp = EmptyMap /\ order = StringSlice(TRUE, <<>>) /\ out = SlicePtr(TRUE, <<>>)
       \/ /\ family = "struct"
          /\ IsTreeRecord(a)
          /\ mp = EmptyMap /\ order = StringSlice(TRUE, <<>>) /\ out = SlicePtr(TRUE, <<>>)
       \/ /\ family = "collide"
          /\ IsCollideRecord(a)
          /\ mp = EmptyMap /\ order = StringSlice(TRUE, <<>>) /\ out = SlicePtr(TRUE, <<>>)
       \/ /\ family = "proj"
          /\ a = <<>>
          /\ mp \in ProjMaps
          /\ order \in {StringSlice(o = <<>> /\ n, o) : o \in Orders, n \in BOOLEAN}
          /\ out \in OutSlices
       \/ /\ family = "keys"
          /\ a = <<>>
          /\ mp \in KeysMaps
          /\ order = StringSlice(TRUE, <<>>) /\ out = SlicePtr(TRUE, <<>>)

MappersFor(fam) == IF fam = "field" THEN Mappers ELSE JsonMappers

\* the families of input that are structs
StructFamilies == {"field", "struct", "collide"}

\* m.ToMap(a)
CallMapperToMap ==
    /\ family \in StructFamilies /\ op = "none"
    /\ \E mm \in MappersFor(family) :
         /\ m' = mm
         /\ ret' = [kind |-> "map", r |-> MapperToMap(mm, a)]
    /\ op' = "Mapper.ToMap"
    /\ UNCHANGED <<family, a, mp, order, out>>

\* m.Tags(a)
CallMapperTags ==
    /\ family \in StructFamilies /\ op = "none"
    /\ \E mm \in MappersFor(family) :
         /\ m' = mm
         /\ ret' = [kind |-> "tags", r |-> MapperTags(mm, a)]
    /\ op' = "Mapper.Tags"
    /\ UNCHANGED <<family, a, mp, order, out>>

\* m.Values(a)
CallMapperValues ==
    /\ family \in StructFamilies /\ op = "none"
    /\ \E mm \in MappersFor(family) :
         /\ m' = mm
         /\ ret' = [kind |-> "values", r |-> MapperValues(mm, a)]
    /\ op' = "Mapper.Values"
    /\ UNCHANGED <<family, a, mp, order, out>>

\* Tags(a, tag)
CallTags ==
    /\ family \in StructFamilies /\ op = "none"
    /\ \E mm \in MappersFor(family) :
         /\ mm.Omitempty = FALSE /\ mm.Flatten = TRUE
         /\ m' = mm
         /\ ret' = [kind |-> "tags", r |-> Tags(a, mm.Tag)]
    /\ op' = "Tags"
    /\ UNCHANGED <<family, a, mp, order, out>>

\* Values(a, tag)
CallValues ==
    /\ family \in StructFamilies /\ op = "none"
    /\ \E mm \in MappersFor(family) :
         /\ mm.Omitempty = FALSE /\ mm.Flatten = TRUE
         /\ m' = mm
         /\ ret' = [kind |-> "values", r |-> Values(a, mm.Tag)]
    /\ op' = "Values"
    /\ UNCHANGED <<family, a, mp, order, out>>

\* Keys(mp)
CallKeys ==
    /\ family = "keys" /\ op = "none"
    /\ ret' = [kind |-> "keys", r |-> Keys(mp)]
    /\ op' = "Keys"
    /\ UNCHANGED <<family, a, m, mp, order, out>>

\* MapValues(&out, mp, order); a nil pointer when out is none
CallMapValues ==
    /\ family = "proj" /\ op = "none"
    /\ LET r == MapValues(out, mp, order)
       IN  /\ out' = r.out
           /\ ret' = [kind |-> "error", r |-> [panicked |-> r.panicked, err |-> r.err],
                      before |-> out]
    /\ op' = "MapValues"
    /\ UNCHANGED <<family, a, m, mp, order>>

Next ==
    \/ CallMapperToMap
    \/ CallMapperTags
    \/ CallMapperValues
    \/ CallTags
    \/ CallValues
    \/ CallKeys
    \/ CallMapValues

Spec == Init /\ [][Next]_vars

-----------------------------------------------------------------------------
(* Vocabulary of the properties: the annotation's tokens as the design     *)
(* describes them (token 0 up to the first comma, token 1 after it).       *)

RECURSIVE Token0(_)
Token0(s) ==
    IF s = <<>> \/ Head(s) = "," THEN <<>> ELSE <<Head(s)>> \o Token0(Tail(s))

HasToken1(s) == Len(Token0(s)) < Len(s)
Token1(s) == SubSeq(s, Len(Token0(s)) + 2, Len(s))

Exported(fld) == fld.name[1] \in Lu
DashSkip(fld, tag) == Token0(TagGet(fld, tag)) = <<"-">>
ResolvedKey(fld, tag) ==
    IF Token0(TagGet(fld, tag)) = <<>> THEN fld.name ELSE Token0(TagGet(fld, tag))
OmitsWhenEmpty(fld, tag) ==
    HasToken1(TagGet(fld, tag)) /\ Token1(TagGet(fld, tag)) = fOmitEmpty

\* the struct without the fields that satisfy Drop
Without(flds, Drop(_)) == SelectSeq(flds, LAMBDA f : ~Drop(f))

\* the call returned a map, and which
ReturnedMap == op = "Mapper.ToMap" /\ ~ret.r.panicked

-----------------------------------------------------------------------------
(* C1: for every Mapper m and every struct a, m.Tags(a) is                 *)
(* Keys(ToMap(a, m.Tag, false, true)): the tag list is computed with       *)
(* empty-omission off and flattening on, whatever m.Omitempty and          *)
(* m.Flatten are.                                                          *)
C1_TagsIgnoreMapperSettings ==
    op = "Mapper.Tags" =>
        LET full == ToMap(a, m.Tag, FALSE, TRUE)
        IN  /\ ret.r.panicked = full.panicked
            /\ ~full.panicked => ret.r.tags = Keys(full.m)

(* C2: for every Mapper m and every struct a whose flattened, non-omitting *)
(* map M = ToMap(a, m.Tag, false, true) exists, m.Values(a) and            *)
(* Values(a, tag) return, without error, the values of M in the ascending  *)
(* order of its keys.                                                      *)
C2_ValuesOfFlattenedMap ==
    (op \in {"Mapper.Values", "Values"} /\ ~ToMap(a, m.Tag, FALSE, TRUE).panicked) =>
        LET M == ToMap(a, m.Tag, FALSE, TRUE).m
            K == Keys(M).elems
        IN  /\ ~ret.r.panicked
            /\ ret.r.err = "nil"
            /\ Len(ret.r.vals) = Cardinality(DOMAIN M)
            /\ ret.r.vals = [i \in 1..Len(K) |-> M[K[i]]]

(* C3: a field whose name does not start with an upper-case letter         *)
(* contributes nothing to the map ToMap returns, whether it is a plain     *)
(* field or a (named or embedded) struct, and ToMap returns normally: the  *)
(* result is that of the struct without those fields.                      *)
C3_UnexportedContributesNothing ==
    op = "Mapper.ToMap" =>
        /\ ~ret.r.panicked
        /\ ret.r.m = MapperToMap(m, Without(a, LAMBDA f : ~Exported(f))).m

(* C4: a field whose annotation's first token is "-" is absent from the    *)
(* map ToMap returns, and so is all its content when it is a nested struct *)
(* (flattened or embedded): the result is that of the struct without those *)
(* fields.                                                                 *)
C4_DashContributesNothing ==
    ReturnedMap =>
        ret.r.m = MapperToMap(m, Without(a, LAMBDA f : DashSkip(f, m.Tag))).m

-----------------------------------------------------------------------------
(* C6: the flattening law.                                                 *)

\* the parent's only nested struct is the embedded field a[i]
OnlyEmbedded(i) ==
    /\ i \in 1..Len(a)
    /\ IsNestedStruct(a[i]) /\ a[i].anonymous
    /\ \A j \in 1..Len(a) : j # i => ~IsNestedStruct(a[j])

\* the structurally identical parent whose field i is named, not embedded
NamedTwin(i) == [a EXCEPT ![i].anonymous = FALSE]

\* no struct-typed field of the struct, at any depth, is a named field
RECURSIVE AllNestedEmbedded(_)
AllNestedEmbedded(flds) ==
    \A j \in 1..Len(flds) :
        IsNestedStruct(flds[j]) =>
            flds[j].anonymous /\ AllNestedEmbedded(flds[j].val.fields)

(* C6, as claimed: for any struct type R, also one that holds named nested *)
(* structs, a parent embedding R converted with flatten=false yields what  *)
(* the parent with R as a named field yields with flatten=true.            *)
C6_FlatteningLawAnyR ==
    \A i \in 1..Len(a) :
        (op = "Mapper.ToMap" /\ ~m.Flatten /\ OnlyEmbedded(i)) =>
            ret.r = MapperToMap([m EXCEPT !.Flatten = TRUE], NamedTwin(i))

(* C6, amended: the law holds for every struct type R none of whose        *)
(* struct-typed fields, at any depth, is a named field; a named nested     *)
(* struct inside R follows the flatten flag.                               *)
C6_FlatteningLaw ==
    \A i \in 1..Len(a) :
        (op = "Mapper.ToMap" /\ ~m.Flatten /\ OnlyEmbedded(i)
            /\ AllNestedEmbedded(a[i].val.fields)) =>
            ret.r = MapperToMap([m EXCEPT !.Flatten = TRUE], NamedTwin(i))

\* C6 witness: a parent whose embedded struct embeds a struct in turn,
\* converted with flatten=false into a map that holds a key of the
\* innermost struct
C6_Witness ==
    /\ ReturnedMap /\ ~m.Flatten
    /\ \E i \in 1..Len(a) :
         /\ OnlyEmbedded(i) /\ AllNestedEmbedded(a[i].val.fields)
         /\ \E j \in 1..Len(a[i].val.fields) :
              LET inner == a[i].val.fields[j]
              IN  /\ IsNestedStruct(inner)
                  /\ \E k \in 1..Len(inner.val.fields) :
                       /\ ~IsNestedStruct(inner.val.fields[k])
                       /\ ResolvedKey(inner.val.fields[k], m.Tag) \in DOMAIN ret.r.m

-----------------------------------------------------------------------------
(* C7: a named nested struct field F, exported and not skipped by the tag  *)
(* resolver (which never reports a nested struct empty, so: not annotated  *)
(* "-").  With flatten=false the walk stores under F's key one sub-map,    *)
(* the ToMap of F's value under the same tag, omitEmpty and flatten, and   *)
(* touches no other key; with flatten=true it merges the keys of that map  *)
(* into the parent and adds no key for F, at every depth, so that no value *)
(* of the result is a sub-map.                                             *)
C7_NamedNestedStruct ==
    ReturnedMap =>
        /\ ret.r = ToMapLoop(m, a, Len(a))
        /\ m.Flatten => \A k \in DOMAIN ret.r.m : ret.r.m[k].kind # "map"
        /\ \A i \in 1..Len(a) :
             (IsNestedStruct(a[i]) /\ ~a[i].anonymous /\ Exported(a[i])
                /\ ~DashSkip(a[i], m.Tag)) =>
                LET before == ToMapLoop(m, a, i - 1).m
                    after == ToMapLoop(m, a, i).m
                    key == ResolvedKey(a[i], m.Tag)
                    sub == ToMap(a[i].val.fields, m.Tag, m.Omitempty, m.Flatten).m
                IN  IF m.Flatten
                    THEN /\ DOMAIN after = DOMAIN before \cup DOMAIN sub
                         /\ \A k \in DOMAIN sub : after[k] = sub[k]
                         /\ \A k \in DOMAIN before \ DOMAIN sub : after[k] = before[k]
                    ELSE /\ DOMAIN after = DOMAIN before \cup {key}
                         /\ after[key].kind = "map"
                         /\ after[key].entries = sub
                         /\ \A k \in DOMAIN before \ {key} : after[k] = before[k]

\* C7 witness: flatten=true on a struct whose named field holds a struct
\* whose named field holds a struct with a plain field, the key of which is
\* in the result
C7_Witness ==
    /\ ReturnedMap /\ m.Flatten
    /\ \E i \in 1..Len(a) :
         /\ IsNestedStruct(a[i]) /\ ~a[i].anonymous /\ Exported(a[i])
         /\ ~DashSkip(a[i], m.Tag)
         /\ ResolvedKey(a[i], m.Tag) \notin DOMAIN ret.r.m
         /\ \E j \in 1..Len(a[i].val.fields) :
              LET inner == a[i].val.fields[j]
              IN  /\ IsNestedStruct(inner) /\ ~inner.anonymous
                  /\ \E k \in 1..Len(inner.val.fields) :
                       /\ ~IsNestedStruct(inner.val.fields[k])
                       /\ ResolvedKey(inner.val.fields[k], m.Tag) \in DOMAIN ret.r.m

-----------------------------------------------------------------------------
(* Projection.                                                             *)

\* the caller's slice holds, position by position, the values of mp under
\* the keys of order, nil for a key mp does not hold
Projected ==
    /\ ~out.nilptr
    /\ Len(out.elems) = Len(order.elems)
    /\ \A i \in 1..Len(order.elems) :
         out.elems[i] = IF order.elems[i] \in DOMAIN mp THEN mp[order.elems[i]] ELSE Nil

(* C8: the projection law.  For an output slice of any initial length, any *)
(* map M and any key sequence K (keys not in M and repeated keys           *)
(* included), MapValues returns a nil error and leaves the slice with      *)
(* exactly len(K) elements, the i-th being M[K[i]], or nil when K[i] is no *)
(* key of M; the call modifies neither M nor K.                            *)
C8_ProjectionLaw ==
    /\ []((op = "MapValues" /\ ~ret.before.nilptr) =>
            (~ret.r.panicked /\ ret.r.err = "nil" /\ Projected))
    /\ [][op' = "MapValues" => (mp' = mp /\ order' = order)]_vars

\* C8 witness: a slice longer than the order was cut down to it, for an
\* order that repeats a key and names a key the map does not hold
C8_Witness ==
    /\ op = "MapValues" /\ ~ret.before.nilptr
    /\ Len(ret.before.elems) > Len(order.elems)
    /\ \E i, j \in 1..Len(order.elems) :
         /\ i # j /\ order.elems[i] = order.elems[j]
         /\ order.elems[i] \in DOMAIN mp
    /\ \E i \in 1..Len(order.elems) : order.elems[i] \notin DOMAIN mp
    /\ ret.r.err = "nil"

(* C9: MapValues never lets a panic escape: for every input, a nil slice   *)
(* pointer included, it returns; a fault raised inside it comes back as a  *)
(* non-nil error; and the error is nil only when the projection was        *)
(* completed.                                                              *)
C9_FaultsTrapped ==
    op = "MapValues" =>
        /\ ~ret.r.panicked
        /\ ret.before.nilptr => ret.r.err # "nil"
        /\ ret.r.err = "nil" => Projected

\* C9 witness: MapValues was handed a nil pointer and returned an error
C9_Witness ==
    /\ op = "MapValues" /\ ret.before.nilptr /\ Len(order.elems) > 0
    /\ ~ret.r.panicked /\ ret.r.err # "nil"

\* s before t in lexicographic byte order: s is a proper prefix of t, or
\* the two differ first at a position where s holds the lesser byte
LexBefore(s, t) ==
    \E k \in 0..Len(s) :
        /\ k <= Len(t)
        /\ \A i \in 1..k : s[i] = t[i]
        /\ \/ k = Len(s) /\ k < Len(t)
           \/ k < Len(s) /\ k < Len(t) /\ CodePoint(s[k + 1]) < CodePoint(t[k + 1])

(* C10: Keys(M) holds every key of M exactly once and nothing else, in     *)
(* strictly ascending lexicographic order; for the empty map it is the     *)
(* empty, nil slice.                                                       *)
C10_KeysSorted ==
    op = "Keys" =>
        LET kk == ret.r.elems
        IN  /\ {kk[i] : i \in 1..Len(kk)} = DOMAIN mp
            /\ Len(kk) = Cardinality(DOMAIN mp)
            /\ \A i, j \in 1..Len(kk) : i < j => LexBefore(kk[i], kk[j])
            /\ DOMAIN mp = {} => (ret.r.isNil /\ kk = <<>>)
            /\ DOMAIN mp # {} => ~ret.r.isNil

\* C10 witness: the keys of a map that holds a key, a longer key that
\* starts with it, an upper-case key and the empty key
C10_Witness ==
    /\ op = "Keys"
    /\ {<<>>, <<"a">>, <<"a", "b">>, <<"B">>, <<"z">>} \subseteq DOMAIN mp
    /\ ret.r.elems[1] = <<>> /\ ret.r.elems[2] = <<"B">>

-----------------------------------------------------------------------------
(* Key collisions.                                                         *)

\* what the field fld writes when it is walked alone: the map of the struct
\* that has this one field
Contribution(mm, fld) == MapperToMap(mm, <<fld>>).m

\* the fields of flds whose contribution holds the key k
Writers(mm, flds, k) ==
    {i \in 1..Len(flds) : k \in DOMAIN Contribution(mm, flds[i])}

\* the one of them that is declared last
LastWriter(mm, flds, k) ==
    CHOOSE i \in Writers(mm, flds, k) : \A j \in Writers(mm, flds, k) : j <= i

\* whole holds every key some field of flds contributes, once, with the
\* value contributed by the field declared last among those that write it
LastWriteWins(mm, flds, whole) ==
    /\ DOMAIN whole = UNION {DOMAIN Contribution(mm, flds[i]) : i \in 1..Len(flds)}
    /\ \A k \in DOMAIN whole :
         whole[k] = Contribution(mm, flds[LastWriter(mm, flds, k)])[k]

\* the same of the struct flds and of every struct nested in it
RECURSIVE LastWriteWinsDeep(_, _)
LastWriteWinsDeep(mm, flds) ==
    /\ LastWriteWins(mm, flds, MapperToMap(mm, flds).m)
    /\ \A i \in 1..Len(flds) :
         IsNestedStruct(flds[i]) => LastWriteWinsDeep(mm, flds[i].val.fields)

(* C11: key collisions in ToMap are resolved last-written-wins in field    *)
(* declaration order.  When several fields of a struct write the same key  *)
(* (a direct field, a key merged from a flattened or embedded nested       *)
(* struct, keys of two flattened nested structs), the map ToMap returns    *)
(* holds that key once, with the value written by the field declared last  *)
(* among them; the same holds inside every nested struct.                  *)
C11_LastWriteWins ==
    ReturnedMap =>
        /\ LastWriteWins(m, a, ret.r.m)
        /\ \A i \in 1..Len(a) :
             IsNestedStruct(a[i]) => LastWriteWinsDeep(m, a[i].val.fields)

\* C11 witness: a direct field and, declared after it, an embedded struct
\* whose two fields both resolve to the direct field's key, all three with
\* different values; the map holds the value of the embedded struct's
\* second field under that key
C11_Witness ==
    /\ ReturnedMap
    /\ \E i, j \in 1..Len(a) :
         /\ i < j
         /\ ~IsNestedStruct(a[i])
         /\ IsNestedStruct(a[j]) /\ a[j].anonymous
         /\ Len(a[j].val.fields) = 2
         /\ LET k == ResolvedKey(a[i], m.Tag)
                 f == a[j].val.fields[1]
                 g == a[j].val.fields[2]
            IN  /\ ResolvedKey(f, m.Tag) = k /\ ResolvedKey(g, m.Tag) = k
                /\ a[i].val # f.val /\ f.val # g.val /\ a[i].val # g.val
                /\ k \in DOMAIN ret.r.m
                /\ ret.r.m[k] = g.val

-----------------------------------------------------------------------------
(* Annotations of more than two tokens.                                    *)

\* the annotation as the list of its comma-separated tokens
RECURSIVE Tokens(_)
Tokens(s) ==
    IF Len(Token0(s)) = Len(s) THEN <<Token0(s)>>
    ELSE <<Token0(s)>> \o Tokens(SubSeq(s, Len(Token0(s)) + 2, Len(s)))

\* the second token of the annotation of fld is "omitempty", whatever
\* tokens follow it
SecondTokenOmitEmpty(fld, tag) ==
    /\ Len(Tokens(TagGet(fld, tag))) >= 2
    /\ Tokens(TagGet(fld, tag))[2] = fOmitEmpty

(* C12: an exported field whose annotation is a comma-separated token list *)
(* whose second token is "omitempty", further tokens after it included     *)
(* ("name,omitempty,string"), is empty-omittable: ToMap with               *)
(* omitEmpty=true leaves the map as it was before the field whenever the   *)
(* field's value is empty.                                                 *)
C12_SecondTokenOmits ==
    (ReturnedMap /\ m.Omitempty) =>
        \A i \in 1..Len(a) :
            (Exported(a[i]) /\ SecondTokenOmitEmpty(a[i], m.Tag) /\ isEmpty(a[i].val)) =>
                ToMapLoop(m, a, i).m = ToMapLoop(m, a, i - 1).m

====
